---- MODULE Spec2Model ----
(***************************************************************************)
(* ms2rescore: the command-line orchestrator main() of                     *)
(* src/ms2rescore/__init__.py as a state machine.                          *)
(*                                                                         *)
(* One run of the program is one behaviour.  The program counter pc walks  *)
(* the statements of parse_config() and main(); every external process     *)
(* (percolator, ms2pip) is a call step followed by a return step, because  *)
(* those are the only points where the orchestrator waits.  The file       *)
(* system is a set of files.  The history variables calls, rcs, log,       *)
(* stages, completed, adapterCalls, featureCalls, pinCalls, checks and     *)
(* removed only record what the code did; no guard reads them.             *)
(*                                                                         *)
(* The collaborators that are not part of the two source files             *)
(* (maxquant_to_rescore, msgf_to_rescore, tandem_to_rescore, rescore_core) *)
(* are modelled by their interface contract: they return, and they write   *)
(* the artifact their contract names.                                      *)
(***************************************************************************)
EXTENDS Integers, Sequences, FiniteSets, TLC

\* -------------------------------------------------------------- bounds
\* Longest feature_sets list of a configuration.
MaxSets == 2

\* The names a feature_sets entry is drawn from.
SubsetNames == {"all", "searchengine"}

\* ------------------------------------------------------------- strings
\* A pipeline name is a tuple of characters, so that str.lower() is computed.
UpperChars == <<"A","B","C","D","E","F","G","H","I","J","K","L","M",
                "N","O","P","Q","R","S","T","U","V","W","X","Y","Z">>
LowerChars == <<"a","b","c","d","e","f","g","h","i","j","k","l","m",
                "n","o","p","q","r","s","t","u","v","w","x","y","z">>

LowerChar(c) ==
  IF \E k \in DOMAIN UpperChars : UpperChars[k] = c
  THEN LowerChars[CHOOSE k \in DOMAIN UpperChars : UpperChars[k] = c]
  ELSE c

\* str.lower()
Lower(s) == [k \in DOMAIN s |-> LowerChar(s[k])]

\* The literals of main()'s pipeline dispatch.
MaxquantNames == { <<"m","a","x","q","u","a","n","t">> }
MsgfNames == { <<"m","s","g","f","p","l","u","s">>,
               <<"m","s","g","f","+">>,
               <<"m","s","-","g","f","+">> }
TandemNames == { <<"t","a","n","d","e","m">>,
                 <<"x","t","a","n","d","e","m">>,
                 <<"x","!","t","a","n","d","e","m">> }

PipelineKindNoElse(pipeline) ==
  IF Lower(pipeline) \in MaxquantNames THEN "maxquant"
  ELSE IF Lower(pipeline) \in MsgfNames THEN "msgf"
  ELSE "tandem"

\* Which adapter the if/elif/else chain of main() selects.
PipelineKind(pipeline) ==
  IF Lower(pipeline) \in MaxquantNames THEN "maxquant"
  ELSE IF Lower(pipeline) \in MsgfNames THEN "msgf"
  ELSE IF Lower(pipeline) \in TandemNames THEN "tandem"
  ELSE "unrecognized"

\* The pipeline names the configurations of the model carry.
Pipelines == { <<"M","a","x","Q","u","a","n","t">>,
               <<"m","s","g","f","p","l","u","s">>,
               <<"M","S","-","G","F","+">>,
               <<"X","!","T","a","n","d","e","m">>,
               <<"M","a","s","c","o","t">> }

\* --------------------------------------------------------------- files
File(name, subset) == <<name, subset>>

OutDir == File("output_dir", "")
ms2pip_config_filename == File("_ms2pip_config.txt", "")
preds_filename == File("_pred_and_emp.csv", "")
features_filename == File("_ms2pipfeatures.csv", "")
correlations_filename == File("_correlations.csv", "")
mgf_filename == File(".mgf", "")
peprec_filename == File(".peprec", "")
PinFile(subset) == File("features.pin", subset)
PoutFile(subset) == File("features.pout", subset)

to_remove_with_pin ==
  << ms2pip_config_filename, preds_filename, features_filename,
     correlations_filename, mgf_filename, peprec_filename,
     PinFile("all"), PinFile("searchengine") >>

\* The list main() removes when temporary files are not kept.
to_remove ==
  << ms2pip_config_filename, preds_filename, features_filename,
     correlations_filename, mgf_filename, peprec_filename >>

Range(s) == { s[k] : k \in DOMAIN s }

\* ------------------------------------------------------- configuration
FeatureSetLists ==
  UNION { [1..n -> SubsetNames] : n \in 0..MaxSets }

NoConfig ==
  [ loaded |-> FALSE, run_percolator |-> FALSE, keep_tmp_files |-> FALSE,
    pipeline |-> <<>>, feature_sets |-> <<>> ]

\* What json.load() can return for the keys main() reads.
Configs ==
  [ loaded : {TRUE}, run_percolator : BOOLEAN, keep_tmp_files : BOOLEAN,
    pipeline : Pipelines, feature_sets : FeatureSetLists ]

\* The state of the file named by -c.
ConfigFiles ==
  { [state |-> "unreadable", content |-> NoConfig],
    [state |-> "bad_json", content |-> NoConfig] }
  \cup { [state |-> "ok", content |-> c] : c \in Configs }

\* The command line: does the identification file exist, is -m given and
\* does it exist, is -o given.
Args ==
  [ identification_file : BOOLEAN,
    mgf_file : {"unset", "exists", "missing"},
    output_filename : BOOLEAN ]

\* Exit statuses an external process ends with.
ExitCodes == {0, 1}

\* ------------------------------------------ configuration resolution
\* parse_configurations() of src/ms2rescore/config_parser.py works on the
\* "ms2rescore" section of the configuration.  Each key of a mapping is
\* absent, null (None) or holds a value.
Keys == { "psm_file", "spectrum_path", "output_path", "processes",
          "feature_generators", "rescoring_engine" }

Zero(k) == IF k = "processes" THEN 0 ELSE <<>>
Val(x) == [st |-> "value", v |-> x]
NullOf(k) == [st |-> "null", v |-> Zero(k)]
AbsentOf(k) == [st |-> "absent", v |-> Zero(k)]

EmptyMapping == [k \in Keys |-> AbsentOf(k)]

\* The mapping that gives `entry` to key k and nothing else.
Only(k, entry) == [j \in Keys |-> IF j = k THEN entry ELSE AbsentOf(j)]

\* Largest cpu count of a host of the model.
MaxCpu == 2

\* Longest list of configuration sources.
MaxSources == 2

\* Paths are tuples of components; "" is the empty tuple.
PsmOk == << "data", "psm.tsv" >>
PsmDotted == << ".", "data", "psm.tsv" >>
PsmMissing == << "data", "nofile.tsv" >>
SpectrumOk == << "data", "spectra.mgf" >>
SpectrumMissing == << "data", "nospectra.mgf" >>
OutNew == << "results", ".", "run1" >>

\* Names of feature generators and rescoring engines are tuples of
\* characters; a section is the list of its (name, options) items in
\* insertion order, the names distinct.
Item(name, options) == [name |-> name, options |-> options]
FgDefault == << Item(<<"b","a","s","i","c">>, "default"),
                Item(<<"m","s","2","p","i","p">>, "default") >>
FgUpper == << Item(<<"M","S","2","P","I","P">>, "hcd") >>
FgCollide == << Item(<<"M","S","2","P","I","P">>, "hcd"),
                Item(<<"m","s","2","p","i","p">>, "cid") >>
ReDefault == << Item(<<"p","e","r","c","o","l","a","t","o","r">>, "default") >>
ReUpper == << Item(<<"M","o","k","a","p","o","t">>, "fast") >>

\* The requested numbers of processes.
ProcessValues == (-1)..(MaxCpu + 1)

\* The compiled defaults (package_data/config_default.json): a psm_file
\* is not part of them, or is; processes is the sentinel, or a number.
Defaults ==
  { [ psm_file |-> psm, spectrum_path |-> NullOf("spectrum_path"),
      output_path |-> NullOf("output_path"), processes |-> Val(n),
      feature_generators |-> Val(FgDefault),
      rescoring_engine |-> Val(ReDefault) ] :
      psm \in {NullOf("psm_file"), Val(PsmOk)}, n \in {-1, 1} }

JsonSuffix == << ".", "j", "s", "o", "n" >>
TomlSuffix == << ".", "t", "o", "m", "l" >>

Source(shape, suffix, readable, content) ==
  [shape |-> shape, suffix |-> suffix, readable |-> readable,
   content |-> content]

Dict(content) == Source("dict", <<>>, TRUE, content)

\* The dictionaries given as sources: one key each, or none.
DictSources ==
  { Dict(Only("psm_file", e)) :
      e \in {Val(PsmDotted), Val(PsmMissing), Val(<<>>), NullOf("psm_file")} }
  \cup { Dict(Only("spectrum_path", e)) :
      e \in {Val(SpectrumOk), Val(SpectrumMissing), NullOf("spectrum_path")} }
  \cup { Dict(Only("output_path", e)) :
      e \in {Val(OutNew), NullOf("output_path")} }
  \cup { Dict(Only("processes", e)) :
      e \in {Val(n) : n \in ProcessValues} \cup {NullOf("processes")} }
  \cup { Dict(Only("feature_generators", Val(m))) : m \in {FgUpper, FgCollide} }
  \cup { Dict(Only("rescoring_engine", Val(ReUpper))) }
  \cup { Dict(EmptyMapping) }

\* The paths given as sources: a readable .JSON file, a readable and a
\* missing .toml file, a .yaml file.
PathSources ==
  { Source("path", <<".","J","S","O","N">>, TRUE, Only("psm_file", Val(PsmOk))),
    Source("path", TomlSuffix, TRUE, Only("processes", Val(1))),
    Source("path", TomlSuffix, FALSE, EmptyMapping),
    Source("path", <<".","y","a","m","l">>, TRUE, EmptyMapping) }

\* argparse Namespaces: every flag left unset, and psm_file set.
NamespaceSources ==
  { Source("namespace", <<>>, TRUE,
           [k \in Keys |-> IF k \in {"feature_generators", "rescoring_engine"}
                           THEN AbsentOf(k) ELSE NullOf(k)]),
    Source("namespace", <<>>, TRUE,
           [k \in Keys |-> IF k = "psm_file" THEN Val(PsmOk)
                           ELSE IF k \in {"feature_generators", "rescoring_engine"}
                           THEN AbsentOf(k) ELSE NullOf(k)]) }

\* A source of another type (a number, a tuple, ...).
OtherSources == { Source("other", <<>>, TRUE, EmptyMapping) }

Sources == DictSources \cup PathSources \cup NamespaceSources \cup OtherSources

SourceLists == UNION { [1..n -> Sources] : n \in 0..MaxSources }

\* The directory tree the resolution starts on.
InitialDisk ==
  { [path |-> << "data" >>, kind |-> "dir"],
    [path |-> PsmOk, kind |-> "file"],
    [path |-> SpectrumOk, kind |-> "file"],
    [path |-> << "run", ".mzid" >>, kind |-> "file"],
    [path |-> << "given", ".mgf" >>, kind |-> "file"] }

\* The command line of the orchestrator: the identification file, and per
\* flag whether the user gave it and the value argparse returns.
Flag(given, v) == [given |-> given, v |-> v]
CliArgs ==
  [ identification_file : { <<"run", ".mzid">>, <<"absent", ".mzid">> },
    mgf_file : { Flag(FALSE, <<>>), Flag(TRUE, <<"given", ".mgf">>),
                 Flag(TRUE, <<"nofile", ".mgf">>) },
    output_filename : { Flag(FALSE, <<>>), Flag(TRUE, <<"outdir">>) },
    log_level : { Flag(FALSE, <<"info">>), Flag(TRUE, <<"debug">>) } ]

\* The 'general' section of the -c file: each of the three keys is absent
\* or holds a value.
FileEntry(present, v) == [present |-> present, v |-> v]
CliFiles ==
  [ mgf_file : { FileEntry(FALSE, <<>>), FileEntry(TRUE, <<"conf", ".mgf">>) },
    output_filename : { FileEntry(FALSE, <<>>), FileEntry(TRUE, <<"conf_out">>) },
    log_level : { FileEntry(FALSE, <<>>), FileEntry(TRUE, <<"warning">>) } ]

CliInputs == [ args : CliArgs, general : CliFiles ]

NoCli ==
  [ args |-> [ identification_file |-> <<>>, mgf_file |-> Flag(FALSE, <<>>),
               output_filename |-> Flag(FALSE, <<>>),
               log_level |-> Flag(FALSE, <<>>) ],
    general |-> [ mgf_file |-> FileEntry(FALSE, <<>>),
                  output_filename |-> FileEntry(FALSE, <<>>),
                  log_level |-> FileEntry(FALSE, <<>>) ] ]

NoGeneral ==
  [ identification_file |-> FileEntry(FALSE, <<>>),
    mgf_file |-> FileEntry(FALSE, <<>>),
    output_filename |-> FileEntry(FALSE, <<>>),
    log_level |-> FileEntry(FALSE, <<>>) ]

\* ---------------------------------------------------------- the state
VARIABLES
  pc,            \* the statement main() is at
  config,        \* the configuration parse_config() returned
  host,          \* which executables `<tool> -h` can call on this host
  fs,            \* the files on disk
  idx,           \* position of the rescoring loop in feature_sets
  exitCode,      \* the process exit code, -1 while the process runs
  outcome,       \* how the run ended, "running" before
  calls,         \* history: every external process started
  rcs,           \* history: the exit status of every external process ended
  log,           \* history: critical, error and debug records, final info
  stages,        \* history: the stages begun
  completed,     \* history: the stages completed
  adapterCalls,  \* history: the normalization adapters called
  featureCalls,  \* history: number of calculate_features calls
  pinCalls,      \* history: the feature_sets argument of each write_pin_files
  checks,        \* history: was the subset's .pout on disk when percolator ended
  removed,       \* history: the files os.remove() removed
  rpc,           \* the statement parse_configurations() is at
  sources,       \* the argument of parse_configurations()
  config_default,\* the compiled defaults
  n_available,   \* mp.cpu_count()
  cascade,       \* the mappings added to cascade_conf
  ridx,          \* position of the loop over the sources
  merged,        \* history: what cascade_conf.parse() returned
  rconfig,       \* the configuration being validated and returned
  rerror,        \* the exception parse_configurations() raised, or "none"
  disk,          \* the directory tree the resolution works on
  io,            \* history: the file-system calls on the configured paths
  schema_validated, \* history: cascade_conf.parse() validated the schema
  cli,           \* the command line and -c file given to parse_config()
  general        \* config['general'] as parse_config() returns it

\* The state of the orchestrator.
mvars == << pc, config, host, fs, idx, exitCode, outcome, calls, rcs, log,
            stages, completed, adapterCalls, featureCalls, pinCalls, checks,
            removed >>

\* The state of the configuration resolution.
rvars == << rpc, sources, config_default, n_available, cascade, ridx, merged,
            rconfig, rerror, disk, io, schema_validated, cli, general >>

vars == << mvars, rvars >>

\* No configuration resolution is going on.
ResolveIdle ==
  /\ rpc = "not_started"
  /\ sources = <<>>
  /\ config_default = EmptyMapping
  /\ n_available = 1
  /\ cascade = <<>>
  /\ ridx = 1
  /\ merged = EmptyMapping
  /\ rconfig = EmptyMapping
  /\ rerror = "none"
  /\ disk = {}
  /\ io = <<>>
  /\ schema_validated = FALSE
  /\ cli = NoCli
  /\ general = NoGeneral

\* The stage a statement belongs to.
StageOf(label) ==
  CASE label \in {"check_percolator", "wait_percolator_probe",
                  "check_ms2pip", "wait_ms2pip_probe"} -> "preflight"
    [] label = "select_pipeline" -> "selection"
    [] label \in {"run_ms2pip", "wait_ms2pip"} -> "prediction"
    [] label = "calculate_features" -> "features"
    [] label = "write_pin_files" -> "output"
    [] label = "cleanup" -> "cleanup"
    [] label \in {"percolator_loop", "wait_percolator"} -> "rescoring"
    [] OTHER -> "none"

NextLabelRescoreFirst(label) ==
  CASE label = "parse_config" -> "check_percolator"
    [] label = "check_percolator" -> "check_ms2pip"
    [] label = "wait_percolator_probe" -> "check_ms2pip"
    [] label = "check_ms2pip" -> "wait_ms2pip_probe"
    [] label = "wait_ms2pip_probe" -> "select_pipeline"
    [] label = "select_pipeline" -> "run_ms2pip"
    [] label = "run_ms2pip" -> "wait_ms2pip"
    [] label = "wait_ms2pip" -> "calculate_features"
    [] label = "calculate_features" -> "write_pin_files"
    [] label = "write_pin_files" -> "percolator_loop"
    [] label = "percolator_loop" -> "cleanup"
    [] label = "wait_percolator" -> "percolator_loop"
    [] label = "cleanup" -> "finish"
    [] OTHER -> "exited"

NextLabelRetry(label) ==
  CASE label = "parse_config" -> "check_percolator"
    [] label = "check_percolator" -> "check_ms2pip"
    [] label = "wait_percolator_probe" -> "check_ms2pip"
    [] label = "check_ms2pip" -> "wait_ms2pip_probe"
    [] label = "wait_ms2pip_probe" -> "select_pipeline"
    [] label = "select_pipeline" -> "run_ms2pip"
    [] label = "run_ms2pip" -> "wait_ms2pip"
    [] label = "wait_ms2pip" -> "run_ms2pip"
    [] label = "calculate_features" -> "write_pin_files"
    [] label = "write_pin_files" -> "cleanup"
    [] label = "cleanup" -> "percolator_loop"
    [] label = "percolator_loop" -> "finish"
    [] label = "wait_percolator" -> "percolator_loop"
    [] OTHER -> "exited"

\* The statement that follows `label` in the text of main() when nothing
\* aborts (for the loop head: the statement after the loop).
NextLabel(label) ==
  CASE label = "parse_config" -> "check_percolator"
    [] label = "check_percolator" -> "check_ms2pip"
    [] label = "wait_percolator_probe" -> "check_ms2pip"
    [] label = "check_ms2pip" -> "wait_ms2pip_probe"
    [] label = "wait_ms2pip_probe" -> "select_pipeline"
    [] label = "select_pipeline" -> "run_ms2pip"
    [] label = "run_ms2pip" -> "wait_ms2pip"
    [] label = "wait_ms2pip" -> "calculate_features"
    [] label = "calculate_features" -> "write_pin_files"
    [] label = "write_pin_files" -> "cleanup"
    [] label = "cleanup" -> "percolator_loop"
    [] label = "percolator_loop" -> "finish"
    [] label = "wait_percolator" -> "percolator_loop"
    [] OTHER -> "exited"

RescoringAlways(c) == TRUE

\* if config['general']['run_percolator']:
RescoringEnabled(c) == c.run_percolator

CleanupInverted(c) == c.keep_tmp_files

\* if not config['general']['keep_tmp_files']:
CleanupEnabled(c) == ~c.keep_tmp_files

ProbeNeverFails(status) == FALSE

\* subprocess.getstatusoutput('<tool> -h')[0] != 0
ProbeFailed(status) == status # 0

Ms2pipRunNeverRaises(status) == FALSE

\* subprocess.run(ms2pip_command, shell=True, check=True) raises
\* CalledProcessError on a non-zero exit status.
Ms2pipRunRaises(status) == status # 0

\* subprocess.run(percolator_cmd, shell=True) has no check: it never raises
\* on the exit status.
PercolatorRunRaises(status) == FALSE

OutputMissingAlways(files, subset) == TRUE

\* if not os.path.isfile(subname + ".pout"):
OutputMissing(files, subset) == PoutFile(subset) \notin files

\* exit(1) after "Could not call Percolator".
PercolatorNotCallableExit == 1

\* exit(0) after "Could not call MS2PIP".
Ms2pipNotCallableExit == 0

\* exit(1) after "Could not recognize the requested pipeline".
UnrecognizedPipelineExit == 1

\* exit(1) after "Could not read JSON config file".
BadJsonExit == 1

\* The exit code of a Python process that ends on an uncaught exception.
UncaughtExceptionExit == 1

\* The exit code of a Python process whose main() returns.
NormalExit == 0

\* `<tool> -h` on a host where the tool is callable, and where it is not
\* (the shell's "command not found").
ProbeStatus(callable) == IF callable THEN 0 ELSE 127

LogEntry(level, msg, k) == [level |-> level, msg |-> msg, k |-> k]

Call(tool, mode, subset, k, pin) ==
  [tool |-> tool, mode |-> mode, subset |-> subset, k |-> k, pin |-> pin]

\* ---------------------------------------------------- stage bookkeeping
Begun(label) ==
  IF StageOf(label) # "none"
     /\ (stages = <<>> \/ stages[Len(stages)] # StageOf(label))
  THEN Append(stages, StageOf(label))
  ELSE stages

\* The statement at pc ran as part of its stage and control moves to `to`.
Continue(to) ==
  /\ pc' = to
  /\ stages' = Begun(pc)
  /\ completed' = IF StageOf(pc) # "none" /\ StageOf(to) # StageOf(pc)
                  THEN Append(completed, StageOf(pc))
                  ELSE completed
  /\ UNCHANGED << exitCode, outcome >>

\* The condition of an optional stage was false: control moves on and the
\* stage does not run.
Skip(to) ==
  /\ pc' = to
  /\ UNCHANGED << stages, completed, exitCode, outcome >>

\* The process ends inside the statement at pc.
Abort(code, why) ==
  /\ pc' = "exited"
  /\ exitCode' = code
  /\ outcome' = why
  /\ stages' = Begun(pc)
  /\ UNCHANGED completed

Init ==
  /\ pc = "parse_config"
  /\ config = NoConfig
  /\ host \in [percolator : BOOLEAN, ms2pip : BOOLEAN]
  /\ fs \in SUBSET { PoutFile(s) : s \in SubsetNames }
  /\ idx = 1
  /\ exitCode = -1
  /\ outcome = "running"
  /\ calls = <<>>
  /\ rcs = <<>>
  /\ log = <<>>
  /\ stages = <<>>
  /\ completed = <<>>
  /\ adapterCalls = <<>>
  /\ featureCalls = 0
  /\ pinCalls = <<>>
  /\ checks = <<>>
  /\ removed = <<>>
  /\ ResolveIdle

\* ------------------------------------------------------------- actions

\* parse_config(): the checks of the command line, os.makedirs of the -o
\* directory, json.load of the -c file.
parse_config ==
  /\ pc = "parse_config"
  /\ \E args \in Args, file \in ConfigFiles :
       IF ~args.identification_file
       THEN /\ Abort(UncaughtExceptionExit, "identification_file_missing")
            /\ UNCHANGED << config, fs, log >>
       ELSE IF args.mgf_file = "missing"
       THEN /\ Abort(UncaughtExceptionExit, "mgf_file_missing")
            /\ UNCHANGED << config, fs, log >>
       ELSE /\ fs' = IF args.output_filename THEN fs \cup {OutDir} ELSE fs
            /\ IF file.state = "unreadable"
               THEN /\ Abort(UncaughtExceptionExit, "config_unreadable")
                    /\ UNCHANGED << config, log >>
               ELSE IF file.state = "bad_json"
               THEN /\ Abort(BadJsonExit, "config_bad_json")
                    /\ log' = Append(log, LogEntry("critical", "config", 0))
                    /\ UNCHANGED config
               ELSE /\ config' = file.content
                    /\ Continue(NextLabel(pc))
                    /\ UNCHANGED log
  /\ UNCHANGED << host, idx, calls, rcs, adapterCalls, featureCalls,
                  pinCalls, checks, removed >>
  /\ UNCHANGED rvars

\* if config['general']['run_percolator']: start `percolator -h`.
check_percolator ==
  /\ pc = "check_percolator"
  /\ IF RescoringEnabled(config)
     THEN /\ calls' = Append(calls, Call("percolator", "probe", "", 0, FALSE))
          /\ Continue("wait_percolator_probe")
     ELSE /\ Continue(NextLabel(pc))
          /\ UNCHANGED calls
  /\ UNCHANGED << config, host, fs, idx, rcs, log, adapterCalls,
                  featureCalls, pinCalls, checks, removed >>
  /\ UNCHANGED rvars

\* `percolator -h` ended: exit(1) when its status is not 0.
percolator_probe_returns ==
  /\ pc = "wait_percolator_probe"
  /\ LET status == ProbeStatus(host.percolator) IN
       /\ rcs' = Append(rcs, status)
       /\ IF ProbeFailed(status)
          THEN /\ log' = Append(log, LogEntry("critical", "percolator", 0))
               /\ Abort(PercolatorNotCallableExit, "percolator_not_callable")
          ELSE /\ Continue(NextLabel(pc))
               /\ UNCHANGED log
  /\ UNCHANGED << config, host, fs, idx, calls, adapterCalls, featureCalls,
                  pinCalls, checks, removed >>
  /\ UNCHANGED rvars

\* Start `ms2pip -h`.
check_ms2pip ==
  /\ pc = "check_ms2pip"
  /\ calls' = Append(calls, Call("ms2pip", "probe", "", 0, FALSE))
  /\ Continue(NextLabel(pc))
  /\ UNCHANGED << config, host, fs, idx, rcs, log, adapterCalls,
                  featureCalls, pinCalls, checks, removed >>
  /\ UNCHANGED rvars

\* `ms2pip -h` ended: exit(0) when its status is not 0.
ms2pip_probe_returns ==
  /\ pc = "wait_ms2pip_probe"
  /\ LET status == ProbeStatus(host.ms2pip) IN
       /\ rcs' = Append(rcs, status)
       /\ IF ProbeFailed(status)
          THEN /\ log' = Append(log, LogEntry("critical", "ms2pip", 0))
               /\ Abort(Ms2pipNotCallableExit, "ms2pip_not_callable")
          ELSE /\ Continue(NextLabel(pc))
               /\ UNCHANGED log
  /\ UNCHANGED << config, host, fs, idx, calls, adapterCalls, featureCalls,
                  pinCalls, checks, removed >>
  /\ UNCHANGED rvars

\* The adapter of the selected pipeline: it returns the names of the
\* normalized record and spectrum files; whether they are the files
\* outname + '.peprec' and outname + '.mgf' depends on the pipeline.
pipeline_adapter(kind) ==
  /\ adapterCalls' = Append(adapterCalls, kind)
  /\ \E written \in SUBSET {peprec_filename, mgf_filename} :
       fs' = fs \cup written

\* The if/elif/else chain on config['general']['pipeline'].lower().
select_pipeline ==
  /\ pc = "select_pipeline"
  /\ IF PipelineKind(config.pipeline) = "unrecognized"
     THEN /\ log' = Append(log, LogEntry("critical", "pipeline", 0))
          /\ Abort(UnrecognizedPipelineExit, "pipeline_unrecognized")
          /\ UNCHANGED << fs, adapterCalls >>
     ELSE /\ pipeline_adapter(PipelineKind(config.pipeline))
          /\ Continue(NextLabel(pc))
          /\ UNCHANGED log
  /\ UNCHANGED << config, host, idx, calls, rcs, featureCalls, pinCalls,
                  checks, removed >>
  /\ UNCHANGED rvars

\* rescore_core.make_ms2pip_config writes the predictor's configuration.
make_ms2pip_config(files) == files \cup {ms2pip_config_filename}

\* make_ms2pip_config, then start ms2pip on the normalized files.
run_ms2pip ==
  /\ pc = "run_ms2pip"
  /\ fs' = make_ms2pip_config(fs)
  /\ calls' = Append(calls, Call("ms2pip", "data", "", 0, FALSE))
  /\ Continue(NextLabel(pc))
  /\ UNCHANGED << config, host, idx, rcs, log, adapterCalls, featureCalls,
                  pinCalls, checks, removed >>
  /\ UNCHANGED rvars

\* The prediction tool: with status 0 it has written the predictions file
\* and, depending on its options, the correlations file.
ms2pip_writes(files, status, correlations) ==
  IF status = 0
  THEN files \cup {preds_filename}
             \cup (IF correlations THEN {correlations_filename} ELSE {})
  ELSE files

\* ms2pip ended: CalledProcessError when its status is not 0.
ms2pip_returns ==
  /\ pc = "wait_ms2pip"
  /\ \E status \in ExitCodes, correlations \in BOOLEAN :
       /\ rcs' = Append(rcs, status)
       /\ IF Ms2pipRunRaises(status)
          THEN /\ Abort(UncaughtExceptionExit, "ms2pip_failed")
               /\ UNCHANGED fs
          ELSE /\ fs' = ms2pip_writes(fs, status, correlations)
               /\ Continue(NextLabel(pc))
  /\ UNCHANGED << config, host, idx, calls, log, adapterCalls, featureCalls,
                  pinCalls, checks, removed >>
  /\ UNCHANGED rvars

\* rescore_core.calculate_features writes the feature table.
feature_table(files) == files \cup {features_filename}

\* The call of rescore_core.calculate_features.
calculate_features ==
  /\ pc = "calculate_features"
  /\ featureCalls' = featureCalls + 1
  /\ fs' = feature_table(fs)
  /\ Continue(NextLabel(pc))
  /\ UNCHANGED << config, host, idx, calls, rcs, log, adapterCalls, pinCalls,
                  checks, removed >>
  /\ UNCHANGED rvars

\* rescore_core.write_pin_files writes one PIN file per entry of feature_sets.
pin_files(files, feature_sets) ==
  files \cup { PinFile(s) : s \in Range(feature_sets) }

\* The call of rescore_core.write_pin_files.
write_pin_files ==
  /\ pc = "write_pin_files"
  /\ pinCalls' = Append(pinCalls, config.feature_sets)
  /\ fs' = pin_files(fs, config.feature_sets)
  /\ Continue(NextLabel(pc))
  /\ UNCHANGED << config, host, idx, calls, rcs, log, adapterCalls,
                  featureCalls, checks, removed >>
  /\ UNCHANGED rvars

\* One debug record per file of `names` that os.remove() did not find.
NotFoundRecords(names, files) ==
  [ k \in 1..Len(SelectSeq(names, LAMBDA f : f \notin files)) |->
      LogEntry("debug", SelectSeq(names, LAMBDA f : f \notin files)[k][1], 0) ]

\* if not keep_tmp_files: os.remove() every file of to_remove; a
\* FileNotFoundError is logged at debug level and the loop goes on.
cleanup ==
  /\ pc = "cleanup"
  /\ IF CleanupEnabled(config)
     THEN /\ removed' = removed \o SelectSeq(to_remove, LAMBDA f : f \in fs)
          /\ log' = log \o NotFoundRecords(to_remove, fs)
          /\ fs' = fs \ Range(to_remove)
          /\ Continue(NextLabel(pc))
     ELSE /\ Skip(NextLabel(pc))
          /\ UNCHANGED << removed, log, fs >>
  /\ UNCHANGED << config, host, idx, calls, rcs, adapterCalls, featureCalls,
                  pinCalls, checks >>
  /\ UNCHANGED rvars

\* if run_percolator: for subset in feature_sets: start percolator on the
\* subset's PIN file.
percolator_loop ==
  /\ pc = "percolator_loop"
  /\ IF ~RescoringEnabled(config)
     THEN /\ Skip(NextLabel(pc))
          /\ UNCHANGED calls
     ELSE IF idx > Len(config.feature_sets)
     THEN /\ Continue(NextLabel(pc))
          /\ UNCHANGED calls
     ELSE /\ calls' = Append(calls,
                 Call("percolator", "data", config.feature_sets[idx], idx,
                      PinFile(config.feature_sets[idx]) \in fs))
          /\ Continue("wait_percolator")
  /\ UNCHANGED << config, host, fs, idx, rcs, log, adapterCalls,
                  featureCalls, pinCalls, checks, removed >>
  /\ UNCHANGED rvars

\* The rescoring tool writes its output at the end of a successful run: with
\* status 0 it has written the subset's .pout or not, with any other status
\* it has not.
percolator_writes(files, subset, status, wrote) ==
  IF wrote /\ status = 0 THEN files \cup {PoutFile(subset)} ELSE files

\* percolator ended, with any status; then the test of
\* os.path.isfile(subname + ".pout").
percolator_returns ==
  /\ pc = "wait_percolator"
  /\ \E status \in ExitCodes, wrote \in BOOLEAN :
       LET subset == config.feature_sets[idx]
           after == percolator_writes(fs, subset, status, wrote)
       IN /\ rcs' = Append(rcs, status)
          /\ fs' = after
          /\ IF PercolatorRunRaises(status)
             THEN /\ Abort(UncaughtExceptionExit, "percolator_failed")
                  /\ UNCHANGED << checks, log, idx >>
             ELSE /\ checks' = Append(checks, PoutFile(subset) \in after)
                  /\ log' = IF OutputMissing(after, subset)
                            THEN Append(log, LogEntry("error", "percolator", idx))
                            ELSE log
                  /\ idx' = idx + 1
                  /\ Continue("percolator_loop")
  /\ UNCHANGED << config, host, calls, adapterCalls, featureCalls, pinCalls,
                  removed >>
  /\ UNCHANGED rvars

\* logging.info("MS2ReScore finished!") and the return of main().
finish ==
  /\ pc = "finish"
  /\ log' = Append(log, LogEntry("info", "finished", 0))
  /\ pc' = "exited"
  /\ exitCode' = NormalExit
  /\ outcome' = "finished"
  /\ UNCHANGED << config, host, fs, idx, calls, rcs, stages, completed,
                  adapterCalls, featureCalls, pinCalls, checks, removed >>
  /\ UNCHANGED rvars

Next ==
  \/ parse_config
  \/ check_percolator
  \/ percolator_probe_returns
  \/ check_ms2pip
  \/ ms2pip_probe_returns
  \/ select_pipeline
  \/ run_ms2pip
  \/ ms2pip_returns
  \/ calculate_features
  \/ write_pin_files
  \/ cleanup
  \/ percolator_loop
  \/ percolator_returns
  \/ finish

Spec == Init /\ [][Next]_vars

\* main() is one thread of control: while a statement can run, one runs,
\* and every tool invocation and collaborator call returns.
FairSpec == Spec /\ WF_vars(Next)

\* ------------------------------------- parse_configurations(): operators
\* str(Path(x)): the "." components of x are dropped.
NormPath(p) == SelectSeq(p, LAMBDA c : c # ".")

\* Path.parent
Parent(p) == SubSeq(p, 1, Len(p) - 1)

\* os.path.splitext(name)[0]
Stem(name) == SubSeq(name, 1, Len(name) - 1)

IsFile(d, p) == [path |-> p, kind |-> "file"] \in d
IsDir(d, p) == [path |-> p, kind |-> "dir"] \in d
Exists(d, p) == IsFile(d, p) \/ IsDir(d, p)

FileMissingNever(d, p) == FALSE

\* if not id_file.is_file():
FileMissing(d, p) == ~IsFile(d, p)

\* Path.mkdir(parents=True, exist_ok=True) and os.makedirs(exist_ok=True)
Mkdir(d, p) ==
  d \cup { [path |-> SubSeq(p, 1, n), kind |-> "dir"] : n \in 1..Len(p) }

\* The truth value of a configured path: None and "" are false.
Truthy(e) == e.st = "value" /\ e.v # <<>>

Access(op, p) == [op |-> op, path |-> p]

NoError == "none"
UnknownExtensionError == "MS2RescoreConfigurationError"
UnsupportedSourceError == "ValueError"
PsmFileRequiredError == "MS2RescoreConfigurationError"

\* cascade_conf = CascadeConfig(...); cascade_conf.add_dict(defaults)
NoDefaults(default) == <<>>

InitialCascade(default) == << default >>

\* One step of the cascading merge with none_overrides_value=False: a value
\* of the later mapping replaces the earlier entry, whole; a null takes the
\* place of an absent key only; an absent key changes nothing.
CascadeUpdate(acc, src) ==
  [ k \in Keys |->
      IF src[k].st = "value" THEN src[k]
      ELSE IF src[k].st = "null" /\ acc[k].st = "absent" THEN src[k]
      ELSE acc[k] ]

RECURSIVE CascadeFold(_, _)
CascadeFold(acc, list) ==
  IF list = <<>> THEN acc
  ELSE CascadeFold(CascadeUpdate(acc, Head(list)), Tail(list))

\* cascade_conf.parse(): the merge of the added mappings, first to last.
CascadeParse(list) == CascadeFold(EmptyMapping, list)

SourceErrorAnySuffix(s) ==
  CASE s.shape = "dict" -> NoError
    [] s.shape = "path" ->
         IF Lower(s.suffix) = TomlSuffix /\ ~s.readable
         THEN "FileNotFoundError" ELSE NoError
    [] s.shape = "namespace" -> NoError
    [] OTHER -> UnsupportedSourceError

\* The exception the loop body raises on source s, or none: open() of a
\* missing .toml file raises; a .json path is only registered.
SourceError(s) ==
  CASE s.shape = "dict" -> NoError
    [] s.shape = "path" ->
         IF Lower(s.suffix) = JsonSuffix THEN NoError
         ELSE IF Lower(s.suffix) = TomlSuffix
         THEN (IF s.readable THEN NoError ELSE "FileNotFoundError")
         ELSE UnknownExtensionError
    [] s.shape = "namespace" -> NoError
    [] OTHER -> UnsupportedSourceError

\* _validate_filenames(config) on the directory tree d: the exception it
\* raises or none, the configuration, the tree and the file-system calls.
ValidateFilenames(c, d) ==
  IF ~Truthy(c.psm_file)
  THEN [error |-> PsmFileRequiredError, config |-> c, disk |-> d, io |-> <<>>]
  ELSE
    LET id_file == NormPath(c.psm_file.v)
        io1 == << Access("is_file", id_file) >>
    IN IF FileMissing(d, id_file)
       THEN [error |-> "FileNotFoundError", config |-> c, disk |-> d,
             io |-> io1]
       ELSE
         LET c1 == [c EXCEPT !.psm_file = Val(id_file)]
             has_spectrum == Truthy(c.spectrum_path)
             spectrum_path == NormPath(c.spectrum_path.v)
             io2 == IF has_spectrum
                    THEN Append(io1, Access("exists", spectrum_path))
                    ELSE io1
         IN IF has_spectrum /\ ~Exists(d, spectrum_path)
            THEN [error |-> "FileNotFoundError", config |-> c, disk |-> d,
                  io |-> io2]
            ELSE
              LET c2 == IF has_spectrum
                        THEN [c1 EXCEPT !.spectrum_path = Val(spectrum_path)]
                        ELSE c1
                  has_output == Truthy(c.output_path)
                  output_path == IF has_output THEN NormPath(c.output_path.v)
                                 ELSE Parent(id_file)
                  create == has_output /\ ~IsDir(d, output_path)
              IN [error |-> NoError,
                  config |-> [c2 EXCEPT !.output_path = Val(output_path)],
                  disk |-> IF create THEN Mkdir(d, output_path) ELSE d,
                  io |-> io2
                         \o (IF has_output
                             THEN << Access("is_dir", output_path) >>
                             ELSE <<>>)
                         \o (IF create
                             THEN << Access("mkdir", output_path) >>
                             ELSE <<>>)]

ValidateProcessesNoClamp(processes, available) == processes

\* _validate_processes(config)
ValidateProcesses(processes, available) ==
  IF processes = -1 \/ processes > available THEN available ELSE processes

\* d[name] = options on a dict kept as the list of its items.
DictSet(d, name, options) ==
  IF \E i \in DOMAIN d : d[i].name = name
  THEN [i \in DOMAIN d |->
          IF d[i].name = name THEN Item(name, options) ELSE d[i]]
  ELSE Append(d, Item(name, options))

RECURSIVE LowerKeysFrom(_, _)
LowerKeysFrom(d, items) ==
  IF items = <<>> THEN d
  ELSE LowerKeysFrom(DictSet(d, Lower(Head(items).name), Head(items).options),
                     Tail(items))

KeepKeys(items) == items

\* {k.lower(): v for k, v in section.items()}
LowerKeys(items) == LowerKeysFrom(<<>>, items)

\* parse_config() of the orchestrator on command line and -c file c and
\* directory tree d: the exception it raises or none, config['general'],
\* the tree and the file-system calls.
CliParseConfig(c, d) ==
  LET a == c.args
      g == c.general
      idf == a.identification_file
      io1 == << Access("isfile", idf) >>
      has_mgf == a.mgf_file.v # <<>>
      io2 == IF has_mgf THEN Append(io1, Access("isfile", a.mgf_file.v))
             ELSE io1
  IN IF ~IsFile(d, idf)
     THEN [error |-> "FileNotFoundError", general |-> NoGeneral, disk |-> d,
           io |-> io1]
     ELSE IF has_mgf /\ ~IsFile(d, a.mgf_file.v)
     THEN [error |-> "FileNotFoundError", general |-> NoGeneral, disk |-> d,
           io |-> io2]
     ELSE
       LET mgf_file == IF has_mgf THEN a.mgf_file.v
                       ELSE Append(Stem(idf), ".mgf")
           has_output == a.output_filename.v # <<>>
           output_filename == IF has_output THEN a.output_filename.v
                              ELSE Stem(idf)
           create == has_output /\ ~IsDir(d, output_filename)
       IN [error |-> NoError,
           general |->
             [ identification_file |-> FileEntry(TRUE, idf),
               mgf_file |-> IF mgf_file # <<>> THEN FileEntry(TRUE, mgf_file)
                            ELSE g.mgf_file,
               log_level |-> IF a.log_level.v # <<>>
                             THEN FileEntry(TRUE, a.log_level.v)
                             ELSE g.log_level,
               output_filename |-> IF output_filename # <<>>
                                   THEN FileEntry(TRUE, output_filename)
                                   ELSE g.output_filename ],
           disk |-> IF create THEN Mkdir(d, output_filename) ELSE d,
           io |-> io2
                  \o (IF has_output
                      THEN << Access("isdir", output_filename) >>
                      ELSE <<>>)
                  \o (IF create
                      THEN << Access("makedirs", output_filename) >>
                      ELSE <<>>)]

\* --------------------------------------- parse_configurations(): actions
\* The orchestrator is not running.
MainIdle ==
  /\ pc = "not_started"
  /\ config = NoConfig
  /\ host = [percolator |-> TRUE, ms2pip |-> TRUE]
  /\ fs = {}
  /\ idx = 1
  /\ exitCode = -1
  /\ outcome = "running"
  /\ calls = <<>>
  /\ rcs = <<>>
  /\ log = <<>>
  /\ stages = <<>>
  /\ completed = <<>>
  /\ adapterCalls = <<>>
  /\ featureCalls = 0
  /\ pinCalls = <<>>
  /\ checks = <<>>
  /\ removed = <<>>

\* A call of parse_configurations(sources), or of the orchestrator's
\* parse_config() on a command line.
ResolveInit ==
  /\ MainIdle
  /\ \/ /\ rpc = "begin"
        /\ sources \in SourceLists
        /\ config_default \in Defaults
        /\ n_available \in 1..MaxCpu
        /\ cli = NoCli
     \/ /\ rpc = "cli"
        /\ sources = <<>>
        /\ config_default = EmptyMapping
        /\ n_available = 1
        /\ cli \in CliInputs
  /\ cascade = <<>>
  /\ ridx = 1
  /\ merged = EmptyMapping
  /\ rconfig = EmptyMapping
  /\ rerror = NoError
  /\ disk = InitialDisk
  /\ io = <<>>
  /\ schema_validated = FALSE
  /\ general = NoGeneral

\* The exception leaves parse_configurations().
Raise(error) ==
  /\ rerror' = error
  /\ rpc' = "raised"

\* cascade_conf = CascadeConfig(...); cascade_conf.add_dict(defaults)
resolve_begin ==
  /\ rpc = "begin"
  /\ cascade' = InitialCascade(config_default)
  /\ rpc' = "add_source"
  /\ UNCHANGED << sources, config_default, n_available, ridx, merged,
                  rconfig, rerror, disk, io, schema_validated, cli, general >>
  /\ UNCHANGED mvars

\* for config in configurations: one turn of the loop, or its end.
add_source ==
  /\ rpc = "add_source"
  /\ IF ridx > Len(sources)
     THEN /\ rpc' = "cascade_parse"
          /\ UNCHANGED << cascade, ridx, rerror >>
     ELSE IF SourceError(sources[ridx]) # NoError
     THEN /\ Raise(SourceError(sources[ridx]))
          /\ UNCHANGED << cascade, ridx >>
     ELSE /\ cascade' = Append(cascade, sources[ridx].content)
          /\ ridx' = ridx + 1
          /\ UNCHANGED << rpc, rerror >>
  /\ UNCHANGED << sources, config_default, n_available, merged, rconfig,
                  disk, io, schema_validated, cli, general >>
  /\ UNCHANGED mvars

\* config = cascade_conf.parse()
cascade_parse ==
  /\ rpc = "cascade_parse"
  /\ merged' = CascadeParse(cascade)
  /\ rconfig' = CascadeParse(cascade)
  /\ schema_validated' = TRUE
  /\ rpc' = "validate_filenames"
  /\ UNCHANGED << sources, config_default, n_available, cascade, ridx,
                  rerror, disk, io, cli, general >>
  /\ UNCHANGED mvars

\* config = _validate_filenames(config)
validate_filenames ==
  /\ rpc = "validate_filenames"
  /\ LET r == ValidateFilenames(rconfig, disk)
     IN /\ io' = io \o r.io
        /\ disk' = r.disk
        /\ IF r.error # NoError
           THEN /\ Raise(r.error)
                /\ UNCHANGED rconfig
           ELSE /\ rconfig' = r.config
                /\ rpc' = "validate_processes"
                /\ UNCHANGED rerror
  /\ UNCHANGED << sources, config_default, n_available, cascade, ridx,
                  merged, schema_validated, cli, general >>
  /\ UNCHANGED mvars

\* config = _validate_processes(config)
validate_processes ==
  /\ rpc = "validate_processes"
  /\ rconfig' = [rconfig EXCEPT
                   !.processes = Val(ValidateProcesses(@.v, n_available))]
  /\ rpc' = "lowercase_names"
  /\ UNCHANGED << sources, config_default, n_available, cascade, ridx,
                  merged, rerror, disk, io, schema_validated, cli, general >>
  /\ UNCHANGED mvars

\* Convert feature_generators and rescoring_engine names to lowercase, and
\* return config.
lowercase_names ==
  /\ rpc = "lowercase_names"
  /\ rconfig' = [rconfig EXCEPT
                   !.feature_generators = Val(LowerKeys(@.v)),
                   !.rescoring_engine = Val(LowerKeys(@.v))]
  /\ rpc' = "returned"
  /\ UNCHANGED << sources, config_default, n_available, cascade, ridx,
                  merged, rerror, disk, io, schema_validated, cli, general >>
  /\ UNCHANGED mvars

\* The orchestrator's parse_config() on the command line `cli`.
cli_parse_config ==
  /\ rpc = "cli"
  /\ LET r == CliParseConfig(cli, disk)
     IN /\ io' = io \o r.io
        /\ disk' = r.disk
        /\ general' = r.general
        /\ rerror' = r.error
        /\ rpc' = IF r.error # NoError THEN "raised" ELSE "returned"
  /\ UNCHANGED << sources, config_default, n_available, cascade, ridx,
                  merged, rconfig, schema_validated, cli >>
  /\ UNCHANGED mvars

ResolveNext ==
  \/ resolve_begin
  \/ add_source
  \/ cascade_parse
  \/ validate_filenames
  \/ validate_processes
  \/ lowercase_names
  \/ cli_parse_config

ResolveSpec == ResolveInit /\ [][ResolveNext]_vars

\* ----------------------------------------------------- the run's history
IsError(e) == e.level = "error"
IsDebug(e) == e.level = "debug"
IsCritical(e) == e.level = "critical"

PercolatorRuns ==
  SelectSeq(calls, LAMBDA c : c.tool = "percolator" /\ c.mode = "data")

Ms2pipRuns ==
  SelectSeq(calls, LAMBDA c : c.tool = "ms2pip" /\ c.mode = "data")

\* The ended invocations of `tool` in `mode` whose exit status was not 0.
Failed(tool, mode) ==
  { k \in DOMAIN rcs :
      calls[k].tool = tool /\ calls[k].mode = mode /\ rcs[k] # 0 }

NoPipelineWork ==
  /\ adapterCalls = <<>>
  /\ \A k \in DOMAIN calls : calls[k].mode = "probe"
  /\ featureCalls = 0
  /\ pinCalls = <<>>
  /\ removed = <<>>
  /\ ~(\E e \in Range(log) : IsDebug(e) \/ IsError(e))

TypeOK ==
  /\ pc \in {"parse_config", "check_percolator", "wait_percolator_probe",
             "check_ms2pip", "wait_ms2pip_probe", "select_pipeline",
             "run_ms2pip", "wait_ms2pip", "calculate_features",
             "write_pin_files", "cleanup", "percolator_loop",
             "wait_percolator", "finish", "exited"}
  /\ config \in Configs \cup {NoConfig}
  /\ exitCode \in {-1, 0, 1}
  /\ (pc = "exited") = (exitCode # -1)
  /\ (pc = "exited") = (outcome # "running")
  /\ Len(rcs) <= Len(calls)
  /\ Len(calls) <= Len(rcs) + 1
  /\ idx \in 1..(Len(config.feature_sets) + 1)

\* ----------------------------------------------------------------- C1
C1_Order ==
  << "preflight", "selection", "prediction", "features", "output",
     "cleanup", "rescoring" >>

\* The stages the configuration asks for, in the order of C1_Order.
C1_Expected ==
  SelectSeq(C1_Order,
            LAMBDA s : /\ (s = "cleanup" => ~config.keep_tmp_files)
                       /\ (s = "rescoring" => config.run_percolator))

\* C1: in every run the stages begun are a prefix of pre-flight, selection,
\* prediction, feature computation, output generation, cleanup (if enabled),
\* rescoring (if enabled); a stage begins only when every stage begun before
\* it has completed; the work of a stage happens only after the stage before
\* it has completed, and at most once; a run that finishes has run them all.
C1_StagesInOrder ==
  /\ Len(stages) <= Len(C1_Expected)
  /\ stages = SubSeq(C1_Expected, 1, Len(stages))
  /\ Len(completed) <= Len(stages)
  /\ completed = SubSeq(stages, 1, Len(completed))
  /\ Len(stages) - Len(completed) <= 1
  /\ (calls # <<>> => "preflight" \in Range(stages))
  /\ (adapterCalls # <<>> => "preflight" \in Range(completed))
  /\ (Ms2pipRuns # <<>> => "selection" \in Range(completed))
  /\ (featureCalls > 0 => "prediction" \in Range(completed))
  /\ (pinCalls # <<>> => "features" \in Range(completed))
  /\ (removed # <<>> => "output" \in Range(completed))
  /\ (PercolatorRuns # <<>> =>
        /\ "output" \in Range(completed)
        /\ (~config.keep_tmp_files => "cleanup" \in Range(completed)))
  /\ Len(adapterCalls) <= 1
  /\ Len(Ms2pipRuns) <= 1
  /\ featureCalls <= 1
  /\ Len(pinCalls) <= 1
  /\ (outcome = "finished" => stages = C1_Expected /\ completed = stages)

\* A finished run that went through all seven stages, the rescoring loop
\* over two subsets.
C1_Witness ==
  /\ outcome = "finished"
  /\ completed = C1_Order
  /\ Len(PercolatorRuns) >= 2

\* ----------------------------------------------------------------- C2
\* C2: the rescoring tool is run on the entries of feature_sets in list
\* order, once each; an error is logged for invocation k exactly when the
\* subset's output file is missing after invocation k; the loop never
\* aborts: once output generation is done in a run with rescoring enabled,
\* the run ends only by finishing, with every entry invoked.
C2_EverySubsetRescored ==
  /\ \A k \in DOMAIN PercolatorRuns :
       /\ k <= Len(config.feature_sets)
       /\ PercolatorRuns[k].subset = config.feature_sets[k]
       /\ PercolatorRuns[k].k = k
  /\ Len(checks) <= Len(PercolatorRuns)
  /\ \A k \in DOMAIN checks :
       (~checks[k]) <=> (\E e \in Range(log) : IsError(e) /\ e.k = k)
  /\ Len(SelectSeq(log, IsError)) = Cardinality({k \in DOMAIN checks : ~checks[k]})
  /\ (pc = "exited" /\ config.run_percolator /\ "output" \in Range(completed)
        => /\ outcome = "finished"
           /\ Len(PercolatorRuns) = Len(config.feature_sets)
           /\ Len(checks) = Len(config.feature_sets)
           /\ "rescoring" \in Range(completed))

\* The first subset's output is missing, the second subset is still run and
\* its output is there.
C2_Witness ==
  /\ outcome = "finished"
  /\ Len(checks) >= 2
  /\ ~checks[1]
  /\ checks[2]

\* ----------------------------------------------------------------- C3
\* C3: once ms2pip has exited non-zero on the data, the run is over with
\* that failure and a non-zero exit code; ms2pip was run once, and no
\* feature computation, output generation, cleanup or rescoring happened.
C3_PredictorFailureFatal ==
  Failed("ms2pip", "data") # {} =>
    /\ pc = "exited"
    /\ outcome = "ms2pip_failed"
    /\ exitCode # 0
    /\ Len(Ms2pipRuns) = 1
    /\ Len(calls) = Len(rcs)
    /\ featureCalls = 0
    /\ pinCalls = <<>>
    /\ removed = <<>>
    /\ ~(\E e \in Range(log) : IsDebug(e))
    /\ PercolatorRuns = <<>>
    /\ Range(stages) \cap {"features", "output", "cleanup", "rescoring"} = {}
    /\ "prediction" \notin Range(completed)

C3_Witness ==
  /\ Failed("ms2pip", "data") # {}
  /\ config.run_percolator
  /\ ~config.keep_tmp_files
  /\ config.feature_sets # <<>>

\* ----------------------------------------------------------------- C4
\* A required executable is not callable on the host: ms2pip always,
\* percolator when rescoring is enabled.
C4_RequiredToolMissing ==
  /\ config.loaded
  /\ (~host.ms2pip \/ (config.run_percolator /\ ~host.percolator))

\* C4: when a required executable is not callable, no pipeline work ever
\* happens in the run (no adapter call, no run of a tool on data, no
\* feature, output, cleanup or rescoring step), and the run ends in
\* pre-flight with the not-callable error of that tool.
C4_PreflightAbort ==
  C4_RequiredToolMissing =>
    /\ NoPipelineWork
    /\ Range(stages) \subseteq {"preflight"}
    /\ completed = <<>>
    /\ pc \in {"check_percolator", "wait_percolator_probe", "check_ms2pip",
               "wait_ms2pip_probe", "exited"}
    /\ (pc = "exited" =>
          /\ outcome \in {"percolator_not_callable", "ms2pip_not_callable"}
          /\ outcome = "percolator_not_callable" => ~host.percolator
          /\ outcome = "ms2pip_not_callable" => ~host.ms2pip
          /\ \E e \in Range(log) : IsCritical(e))

\* Rescoring enabled, percolator callable, ms2pip not: the run ended in
\* pre-flight after both probes.
C4_Witness ==
  /\ C4_RequiredToolMissing
  /\ config.run_percolator
  /\ host.percolator
  /\ pc = "exited"
  /\ Len(calls) = 2

\* ----------------------------------------------------------------- C5
\* C5: a run that ends on a fatal configuration or pre-flight error
\* (unreadable or malformed config file, percolator not callable while
\* rescoring is enabled, ms2pip not callable, unrecognized pipeline) ends
\* with a non-zero exit code.
C5_FatalExitNonZero ==
  outcome \in {"config_unreadable", "config_bad_json",
               "percolator_not_callable", "ms2pip_not_callable",
               "pipeline_unrecognized"}
    => exitCode # 0

\* ----------------------------------------------------------------- C6
\* C6: a finished run with rescoring enabled in which some subset's output
\* was missing after its invocation has still run every subset, and its exit
\* code is non-zero.
C6_FailureInExitCode ==
  (outcome = "finished" /\ config.run_percolator
     /\ \E k \in DOMAIN checks : ~checks[k])
    => /\ Len(PercolatorRuns) = Len(config.feature_sets)
       /\ exitCode # 0

\* ----------------------------------------------------------------- C7
\* The pipeline names of the model that, lowercased, are none of
\* 'maxquant', 'msgfplus', 'msgf+', 'ms-gf+', 'tandem', 'xtandem', 'x!tandem'.
C7_Unrecognized == { <<"M","a","s","c","o","t">> }

\* C7 as stated: in a run that ends with the unrecognized-pipeline error no
\* external process has been invoked.
C7_NoProcessBeforeError ==
  outcome = "pipeline_unrecognized" => calls = <<>>

\* C7 amended: an unrecognized pipeline kind is fatal and is surfaced before
\* any pipeline work: with such a kind no adapter is ever called and the
\* only external processes invoked are the pre-flight probes; when both
\* probes pass the run ends with the unrecognized-pipeline error and exit
\* code 1; and only an unrecognized kind ends a run with that error.
C7_NoWorkBeforeError ==
  /\ (config.loaded /\ config.pipeline \in C7_Unrecognized) =>
       /\ NoPipelineWork
       /\ Range(stages) \subseteq {"preflight", "selection"}
       /\ "selection" \notin Range(completed)
       /\ (pc = "exited" =>
             outcome \in {"percolator_not_callable", "ms2pip_not_callable",
                          "pipeline_unrecognized"})
       /\ (pc = "exited" /\ Failed("percolator", "probe") = {}
             /\ Failed("ms2pip", "probe") = {}
           => outcome = "pipeline_unrecognized")
  /\ (outcome = "pipeline_unrecognized" =>
       /\ config.pipeline \in C7_Unrecognized
       /\ exitCode = 1
       /\ \E e \in Range(log) : IsCritical(e) /\ e.msg = "pipeline")

\* The run ended with the unrecognized-pipeline error after both probes.
C7_Witness ==
  /\ outcome = "pipeline_unrecognized"
  /\ Len(calls) = 2
  /\ Len(rcs) = 2

\* ----------------------------------------------------------------- C8
\* C8: with rescoring disabled percolator is never invoked, neither as a
\* probe nor on data, and the run never ends on percolator not being
\* callable; when moreover ms2pip is callable, its run on the data did not
\* fail and the pipeline kind is recognized, the run ends finished, with
\* output generation completed by one write_pin_files call over the whole
\* feature_sets list, and without a rescoring stage.
C8_RescoringDisabled ==
  (config.loaded /\ ~config.run_percolator) =>
    /\ \A k \in DOMAIN calls : calls[k].tool # "percolator"
    /\ outcome # "percolator_not_callable"
    /\ "rescoring" \notin Range(stages)
    /\ (pc = "exited" /\ host.ms2pip /\ Failed("ms2pip", "data") = {}
          /\ config.pipeline \notin C7_Unrecognized
        => /\ outcome = "finished"
           /\ exitCode = 0
           /\ "output" \in Range(completed)
           /\ pinCalls = << config.feature_sets >>)

\* Rescoring disabled on a host without percolator: the run finished, with
\* write_pin_files called for a list of two subsets.
C8_Witness ==
  /\ outcome = "finished"
  /\ ~config.run_percolator
  /\ ~host.percolator
  /\ Len(config.feature_sets) >= 2
  /\ pinCalls # <<>>

\* ----------------------------------------------------------------- C9
\* C9: every ended invocation with a non-zero exit status is reported: a
\* failed probe or a failed ms2pip run ends the run with its error, a
\* failed percolator run on entry k has an error logged for entry k; and no
\* tool is invoked twice for the same stage or feature_sets entry.
C9_FailuresSurfaced ==
  /\ \A k \in DOMAIN rcs :
       rcs[k] # 0 =>
         IF calls[k].tool = "percolator" /\ calls[k].mode = "data"
         THEN \E e \in Range(log) : IsError(e) /\ e.k = calls[k].k
         ELSE pc = "exited" /\ outcome # "finished"
  /\ \A a, b \in DOMAIN calls :
       (calls[a].tool = calls[b].tool /\ calls[a].mode = calls[b].mode
          /\ calls[a].k = calls[b].k) => a = b

\* ---------------------------------------------------------------- C10
C10_AfterCleanup == {"percolator_loop", "wait_percolator", "finish"}

\* C10: the cleanup stage runs exactly in the runs that reach it with
\* keep_tmp_files false.  The cleanup step then leaves none of the listed
\* files on disk and removes nothing else, logs one debug record for each
\* listed file that was absent and nothing else, removes each listed file
\* that was present, and hands over to the rescoring stage; a run that
\* cleaned up ends only by finishing, with exit code 0.  With keep_tmp_files
\* true the step changes neither the disk nor the log.
C10_CleanupIdempotent ==
  /\ [][ pc = "cleanup" =>
           IF ~config.keep_tmp_files
           THEN /\ fs' = fs \ Range(to_remove)
                /\ Len(log') >= Len(log)
                /\ SubSeq(log', 1, Len(log)) = log
                /\ \A k \in (Len(log) + 1)..Len(log') : IsDebug(log'[k])
                /\ { log'[k].msg : k \in (Len(log) + 1)..Len(log') }
                     = { f[1] : f \in Range(to_remove) \ fs }
                /\ Len(log') - Len(log) = Cardinality(Range(to_remove) \ fs)
                /\ Range(removed') = Range(removed) \cup (Range(to_remove) \cap fs)
                /\ pc' = "percolator_loop"
                /\ "cleanup" \in Range(completed')
           ELSE /\ fs' = fs
                /\ log' = log
                /\ removed' = removed
                /\ pc' = "percolator_loop"
                /\ "cleanup" \notin Range(stages') ]_vars
  /\ []( (pc \in C10_AfterCleanup \/ outcome = "finished") =>
           ("cleanup" \in Range(completed)) = (~config.keep_tmp_files) )
  /\ []( "cleanup" \in Range(stages) =>
           /\ ~config.keep_tmp_files
           /\ (pc = "exited" => outcome = "finished" /\ exitCode = 0) )
  /\ []( (removed # <<>> \/ \E e \in Range(log) : IsDebug(e)) =>
           "cleanup" \in Range(stages) )

\* A finished run with rescoring whose cleanup removed some listed files and
\* found others already absent.
C10_Witness ==
  /\ outcome = "finished"
  /\ "rescoring" \in Range(completed)
  /\ PercolatorRuns # <<>>
  /\ removed # <<>>
  /\ Cardinality({ e \in Range(log) : IsDebug(e) }) >= 2

\* ----------------------------------------------------------------- C19
\* C19: the cleanup stage never deletes the per-subset PIN file: the list it
\* removes names no PIN file, it has removed none, and in every run with
\* rescoring enabled and temporary files not kept the PIN file of a subset
\* is on disk when the rescoring tool is invoked on that subset and stays
\* there afterwards.
C19_PinSurvivesCleanup ==
  /\ \A s \in SubsetNames : PinFile(s) \notin Range(to_remove)
  /\ \A s \in SubsetNames : PinFile(s) \notin Range(removed)
  /\ \A k \in DOMAIN calls :
        (calls[k].tool = "percolator" /\ calls[k].mode = "data") =>
          /\ calls[k].pin
          /\ PinFile(calls[k].subset) \in fs
  /\ (pinCalls # <<>> /\ "cleanup" \in Range(completed)) =>
        \A s \in Range(config.feature_sets) : PinFile(s) \in fs

\* A finished run that removed temporary files and then rescored two
\* subsets from their PIN files.
C19_Witness ==
  /\ outcome = "finished"
  /\ ~config.keep_tmp_files
  /\ config.run_percolator
  /\ removed # <<>>
  /\ Len(PercolatorRuns) = 2
  /\ \A k \in DOMAIN PercolatorRuns : PercolatorRuns[k].pin

\* ----------------------------------------------------------------- C20
\* C20: when every tool invocation and collaborator call returns, every run
\* of main() eventually ends (finished, or aborted with an exit code); the
\* predictor is run on the data at most once and the rescoring tool at most
\* once per entry of feature_sets.
C20_Terminates ==
  /\ <>(pc = "exited" /\ outcome # "running")
  /\ []( Len(Ms2pipRuns) <= 1 )
  /\ []( /\ Len(PercolatorRuns) <= Len(config.feature_sets)
         /\ \A a, b \in DOMAIN PercolatorRuns :
               PercolatorRuns[a].k = PercolatorRuns[b].k => a = b
         /\ \A a \in DOMAIN PercolatorRuns :
               PercolatorRuns[a].subset
                 = config.feature_sets[PercolatorRuns[a].k] )

\* An ended run that ran the predictor once and the rescoring tool once on
\* each of two entries.
C20_Witness ==
  /\ pc = "exited"
  /\ outcome = "finished"
  /\ Len(Ms2pipRuns) = 1
  /\ Len(config.feature_sets) = 2
  /\ Len(PercolatorRuns) = 2

\* ------------------------------------------- configuration resolution
\* A call of parse_configurations() (not the orchestrator's parse_config()).
IsResolution == rpc \notin {"not_started", "cli"} /\ cli = NoCli

Ended == rpc \in {"returned", "raised"}

\* The path keys of the configuration.
PathKeys == {"psm_file", "spectrum_path", "output_path"}

\* ----------------------------------------------------------------- C11
\* C11 as stated: resolving an empty list of sources succeeds and returns
\* exactly the compiled defaults.
C11_EmptyListYieldsDefaults ==
  (IsResolution /\ sources = <<>> /\ Ended) =>
    /\ rpc = "returned"
    /\ rconfig = config_default

\* C11, amended: with an empty list of sources the cascade yields exactly
\* the compiled defaults; resolution then succeeds only when the defaults
\* name an existing psm_file, and fails with the psm_file configuration
\* error when they name none; the returned configuration is the defaults up
\* to post-validation: output_path is the directory of psm_file and the
\* "all processes" sentinel is the host's count.
C11_EmptyListMergesDefaults ==
  (IsResolution /\ sources = <<>>) =>
    /\ schema_validated => merged = config_default
    /\ rpc = "raised" =>
         /\ rerror = "MS2RescoreConfigurationError"
         /\ config_default.psm_file.st # "value"
         /\ io = <<>>
    /\ rpc = "returned" =>
         /\ config_default.psm_file.st = "value"
         /\ \A k \in Keys \ {"output_path", "processes"} :
              rconfig[k] = config_default[k]
         /\ rconfig.output_path.st = "value"
         /\ rconfig.output_path.v \o << "psm.tsv" >> = rconfig.psm_file.v
         /\ config_default.processes.v = -1 =>
              rconfig.processes.v = n_available
         /\ config_default.processes.v \in 1..n_available =>
              rconfig.processes = config_default.processes

\* A resolution of the empty list that returned, with a configuration that
\* is the merged defaults but for output_path and processes.
C11_Witness ==
  /\ IsResolution
  /\ sources = <<>>
  /\ rpc = "returned"
  /\ merged = config_default
  /\ rconfig # config_default
  /\ config_default.processes.v = -1

\* ----------------------------------------------------------------- C12
\* The value the last source that gives key k a non-null value gives it.
Gives(i, k) == sources[i].content[k].st = "value"

LastGiver(i, k) ==
  /\ Gives(i, k)
  /\ \A j \in DOMAIN sources : j > i => ~Gives(j, k)

\* The (name, options) items of a section whose lowercased name no other
\* item of the section has.
UniqueItems(items) ==
  { items[a] : a \in { a \in DOMAIN items :
      \A b \in DOMAIN items : Lower(items[b].name) = Lower(items[a].name)
                                => b = a } }

CliKeys == {"mgf_file", "output_filename", "log_level"}

\* C13: a null or absent value of a later source never replaces a concrete
\* value of an earlier source or of the defaults, and a command-line flag
\* the user left unset never replaces the value the configuration file
\* gives for that key.
C13_PrecedenceSkipLaw ==
  /\ (IsResolution /\ schema_validated) =>
       \A k \in Keys :
         /\ \A i \in DOMAIN sources : LastGiver(i, k) =>
              merged[k] = sources[i].content[k]
         /\ (config_default[k].st = "value"
             /\ \A i \in DOMAIN sources : ~Gives(i, k)) =>
              merged[k] = config_default[k]
  /\ (cli # NoCli /\ rpc = "returned") =>
       \A k \in CliKeys :
         (~cli.args[k].given /\ cli.general[k].present) =>
           general[k] = cli.general[k]

\* ----------------------------------------------------------------- C14
\* The place of a file-system call in the order of the checks.
Rank(op) ==
  CASE op = "is_file" -> 1
    [] op = "exists" -> 2
    [] op = "is_dir" -> 3
    [] op = "mkdir" -> 4
    [] op = "isfile" -> 1
    [] op = "isdir" -> 3
    [] op = "makedirs" -> 4
    [] OTHER -> 0

\* The merged configuration names no psm_file, or one that is not a file,
\* or a spectrum path that does not exist.
InputsInvalid ==
  \/ ~Truthy(merged.psm_file)
  \/ ~IsFile(InitialDisk, NormPath(merged.psm_file.v))
  \/ /\ Truthy(merged.spectrum_path)
     /\ ~Exists(InitialDisk, NormPath(merged.spectrum_path.v))

\* C14: the checks run once, in the order psm_file, spectrum_path,
\* output_path, processes, name lowercasing, and the first failure stops
\* validation with no effect of a later check: when psm_file is empty or
\* not a file, or a given spectrum path does not exist, resolution fails
\* with the configuration or not-found error, no directory has been created,
\* processes is not clamped and no name is lowercased.  The orchestrator's
\* parse_config() likewise checks its input files before it creates the
\* output directory.
C14_FirstFailureStops ==
  /\ \A a, b \in DOMAIN io :
       a < b => /\ Rank(io[a].op) <= Rank(io[b].op)
                /\ io[a] # io[b]
                /\ IsResolution => Rank(io[a].op) < Rank(io[b].op)
  /\ (IsResolution /\ rpc \in {"validate_processes", "lowercase_names"}) =>
       /\ rconfig.feature_generators = merged.feature_generators
       /\ rconfig.rescoring_engine = merged.rescoring_engine
       /\ rpc = "validate_processes" => rconfig.processes = merged.processes
  /\ (IsResolution /\ schema_validated /\ Ended) =>
       /\ InputsInvalid = (rpc = "raised")
       /\ rpc = "raised" =>
            /\ disk = InitialDisk
            /\ \A a \in DOMAIN io : io[a].op # "mkdir"
            /\ rconfig.processes = merged.processes
            /\ rconfig.feature_generators = merged.feature_generators
            /\ rconfig.rescoring_engine = merged.rescoring_engine
            /\ ~Truthy(merged.psm_file) =>
                 rerror = "MS2RescoreConfigurationError" /\ io = <<>>
            /\ Truthy(merged.psm_file) =>
                 /\ rerror = "FileNotFoundError"
                 /\ io[Len(io)].op \in {"is_file", "exists"}
  /\ (cli # NoCli /\ Ended) =>
       /\ (rpc = "raised") =
            \/ ~IsFile(InitialDisk, cli.args.identification_file)
            \/ /\ cli.args.mgf_file.given
               /\ ~IsFile(InitialDisk, cli.args.mgf_file.v)
       /\ rpc = "raised" =>
            /\ disk = InitialDisk
            /\ rerror = "FileNotFoundError"
            /\ \A a \in DOMAIN io : io[a].op = "isfile"

\* A resolution that was given a new output directory and a psm_file that
\* does not exist: it failed and created nothing.
C14_Witness ==
  /\ IsResolution
  /\ rpc = "raised"
  /\ rerror = "FileNotFoundError"
  /\ Truthy(merged.output_path)
  /\ ~IsDir(InitialDisk, NormPath(merged.output_path.v))
  /\ merged.psm_file = Val(PsmMissing)
  /\ disk = InitialDisk

\* ----------------------------------------------------------------- C15
\* C15: after every successful resolution processes is a positive integer
\* that is at most the host's count, for every requested value (the
\* sentinel -1, 0, and values above the host's count included).
C15_ProcessesPositive ==
  (IsResolution /\ rpc = "returned") =>
    rconfig.processes.v \in 1..n_available

\* ----------------------------------------------------------------- C16
\* Source i is a file path whose extension is neither .json nor .toml,
\* whatever its case.
BadExtension(i) ==
  /\ sources[i].shape = "path"
  /\ Lower(sources[i].suffix) # << ".", "j", "s", "o", "n" >>
  /\ Lower(sources[i].suffix) # << ".", "t", "o", "m", "l" >>

\* Every source before source i is a dictionary, a Namespace, or a readable
\* .json or .toml file.
EarlierAccepted(i) ==
  \A j \in 1..(i - 1) :
    \/ sources[j].shape \in {"dict", "namespace"}
    \/ sources[j].shape = "path" /\ sources[j].readable /\ ~BadExtension(j)

\* C16 as stated: a source list that contains a file path with an extension
\* other than .json and .toml fails with the configuration error about the
\* extension, before schema parsing and before any file-system access to
\* psm_file, spectrum_path or output_path.
C16_BadExtensionError ==
  (IsResolution /\ Ended /\ \E i \in DOMAIN sources : BadExtension(i)) =>
    /\ rpc = "raised"
    /\ rerror = "MS2RescoreConfigurationError"
    /\ ~schema_validated
    /\ io = <<>>
    /\ disk = InitialDisk

\* C16, amended: such a source list always fails before schema parsing and
\* before any file-system access to psm_file, spectrum_path or output_path,
\* and the error is the configuration error about the extension when no
\* earlier source of the list has already failed (a .toml file that cannot
\* be opened, a source of an unsupported type).
C16_BadExtensionFails ==
  (IsResolution /\ \E i \in DOMAIN sources : BadExtension(i)) =>
    /\ rpc \in {"begin", "add_source", "raised"}
    /\ ~schema_validated
    /\ merged = EmptyMapping
    /\ io = <<>>
    /\ disk = InitialDisk
    /\ rpc = "raised" =>
         \A i \in DOMAIN sources : (BadExtension(i) /\ EarlierAccepted(i)) =>
           /\ rerror = "MS2RescoreConfigurationError"
           /\ ridx = i
           /\ Len(cascade) = i

\* A resolution that accepted a dictionary naming a psm_file that does not
\* exist, then failed on a .yaml path without looking for the file.
C16_Witness ==
  /\ IsResolution
  /\ rpc = "raised"
  /\ Len(sources) = 2
  /\ sources[1] = Dict(Only("psm_file", Val(PsmMissing)))
  /\ BadExtension(2)
  /\ rerror = "MS2RescoreConfigurationError"
  /\ io = <<>>

\* ----------------------------------------------------------------- C17
\* C17: a source that is neither a dictionary, nor a file path, nor a
\* Namespace makes resolution fail with the configuration error.
C17_UnsupportedSourceError ==
  (IsResolution /\ Ended
   /\ \E i \in DOMAIN sources :
        sources[i].shape \notin {"dict", "path", "namespace"}
        /\ EarlierAccepted(i)) =>
    /\ rpc = "raised"
    /\ rerror = "MS2RescoreConfigurationError"

\* ----------------------------------------------------------------- C18
Sections == {"feature_generators", "rescoring_engine"}

IsLowerName(name) == \A a \in DOMAIN name : name[a] \notin Range(UpperChars)

\* C18 as stated: after every successful resolution every key of the two
\* sections is lowercase and each entry keeps the options it was given
\* under its original name.
C18_LowercaseKeepsOptions ==
  (IsResolution /\ rpc = "returned") =>
    \A k \in Sections :
      /\ \A r \in Range(rconfig[k].v) : IsLowerName(r.name)
      /\ \A it \in Range(merged[k].v) :
           \E r \in Range(rconfig[k].v) :
             r.name = Lower(it.name) /\ r.options = it.options

\* C18, amended: after every successful resolution every key of the two
\* sections is lowercase and no key occurs twice; an entry whose lowercased
\* name no other entry of its section shares keeps its options; of the
\* entries that share a lowercased name the last one's options are kept.
C18_LowercaseLastWins ==
  (IsResolution /\ rpc = "returned") =>
    \A k \in Sections :
      LET given == merged[k].v
          got == rconfig[k].v
      IN /\ \A r \in Range(got) : IsLowerName(r.name)
         /\ \A a, b \in DOMAIN got : got[a].name = got[b].name => a = b
         /\ { r.name : r \in Range(got) }
              = { Lower(it.name) : it \in Range(given) }
         /\ \A a \in DOMAIN given :
              (\A b \in DOMAIN given :
                 Lower(given[b].name) = Lower(given[a].name) => b <= a) =>
                Item(Lower(given[a].name), given[a].options) \in Range(got)

\* A returned resolution of a feature-generator section with "MS2PIP" and
\* "ms2pip": one "ms2pip" entry, with the options of the second.
C18_Witness ==
  /\ IsResolution
  /\ rpc = "returned"
  /\ merged.feature_generators = Val(FgCollide)
  /\ rconfig.feature_generators.v
       = << Item(<<"m","s","2","p","i","p">>, "cid") >>

====
